---- MODULE Spec2Model ----
(***************************************************************************)
(* Model of scripts/gifwriter.py: the LZW encoder lzw_encode and the       *)
(* container writer write_gif, with the driver constants of                *)
(* scripts/make_gifs.py.                                                   *)
(*                                                                         *)
(* lzw_encode is modelled statement by statement: one action per program   *)
(* position (the leading clear code, one iteration of the byte loop, the   *)
(* pending prefix, the end code, the final padding).  write_gif calls it   *)
(* once per frame; its own steps are the writes before, between and after  *)
(* those calls.                                                            *)
(*                                                                         *)
(* Specifications:                                                         *)
(*   SpecLzw   lzw_encode(data, min_bits) for min_bits in 1..8, short data *)
(*   SpecLzw8  lzw_encode(data, min_bits=8), short data and long patterns  *)
(*             that fill the table to its cap                              *)
(*   SpecGif   write_gif on small animations, on one-row frames whose      *)
(*             payload needs several sub-blocks, and with arguments the    *)
(*             field encodings refuse                                      *)
(***************************************************************************)
EXTENDS Integers, Sequences, FiniteSets, TLC

VARIABLES
    min_bits,          \* lzw_encode: parameter min_bits
    data,              \* lzw_encode: parameter data (a sequence of integers)
    pos,               \* lzw_encode: number of elements of data consumed by the loop
    enc,               \* lzw_encode: its locals (table, next_code, code_size, ...)
    pc,                \* lzw_encode: program position
    frames,            \* write_gif: parameter frames
    palette,           \* write_gif: parameter palette
    duration_ms,       \* write_gif: parameter duration_ms
    transparent_index, \* write_gif: parameter transparent_index
    gpc,               \* write_gif: program position
    idx,               \* write_gif: index of the frame being written (from 1)
    sink,              \* the output file: "absent", "open" or "closed"
    f,                 \* the bytes written to the output file so far
    gce_at,            \* write_gif: length of f when the current frame's control block began
    desc_at,           \* write_gif: length of f when the current frame's 0x2C was written
    data_at            \* write_gif: length of f just after the minimum-code-size byte

vars == <<min_bits, data, pos, enc, pc, frames, palette, duration_ms,
          transparent_index, gpc, idx, sink, f, gce_at, desc_at, data_at>>

lzwVars == <<min_bits, data, pos, enc, pc>>
gifVars == <<frames, palette, duration_ms, transparent_index, gpc, idx, sink, f,
             gce_at, desc_at, data_at>>

(***************************************************************************)
(* Arithmetic helpers.                                                     *)
(***************************************************************************)
Pow2(n) == 2 ^ n

Min(a, b) == IF a <= b THEN a ELSE b

\* (c >> b) & 1 for a non-negative c
BitAt(c, b) == (c \div Pow2(b)) % 2

\* Python's bytes([...]) accepts exactly the integers of range(0, 256)
IsByte(v) == v \in 0..255

(***************************************************************************)
(* lzw_encode                                                              *)
(***************************************************************************)
max_code == 4095

\* table = {bytes([i]): i for i in range(256)}
InitialTable == [s \in {<<i>> : i \in 0..255} |-> s[1]]

\* The locals after lines 10-20.  last_code is not a local of the source: it
\* records the arguments of the most recent write_code call (the code and the
\* code_size it was written with).
LzwInit(mb) ==
    [clear_code |-> Pow2(mb),
     end_code   |-> Pow2(mb) + 1,
     code_size  |-> mb + 1,
     next_code  |-> Pow2(mb) + 2,
     table      |-> InitialTable,
     result     |-> << >>,
     chunk_bits |-> << >>,
     prefix     |-> << >>,
     last_code  |-> << >>]

\* PackByte with the first bit popped taken as the most significant one
PackByteMsbFirst(bits, k) ==
    LET b(i) == bits[8 * (k - 1) + i + 1] % 2
    IN  128 * b(0) + 64 * b(1) + 32 * b(2) + 16 * b(3) + 8 * b(4) + 4 * b(5)
          + 2 * b(6) + b(7)

\* byte = sum((chunk_bits.pop(0) & 1) << i for i in range(8)), for the k-th
\* group of eight bits
PackByte(bits, k) ==
    LET b(i) == bits[8 * (k - 1) + i + 1] % 2
    IN  b(0) + 2 * b(1) + 4 * b(2) + 8 * b(3) + 16 * b(4) + 32 * b(5)
          + 64 * b(6) + 128 * b(7)

\* flush_bits: while len(chunk_bits) >= 8, pop eight bits into one byte
FlushBits(e) ==
    LET n == Len(e.chunk_bits) \div 8
    IN  [e EXCEPT !.result = e.result \o [k \in 1..n |-> PackByte(e.chunk_bits, k)],
                  !.chunk_bits = SubSeq(e.chunk_bits, 8 * n + 1, Len(e.chunk_bits))]

\* write_code(c): code_size bits of c, least significant first, then flush_bits
WriteCode(e, c) ==
    FlushBits([e EXCEPT !.chunk_bits = e.chunk_bits
                            \o [b \in 1..e.code_size |-> BitAt(c, b - 1)],
                        !.last_code = <<c, e.code_size>>])

\* GrowTable widening the codes one entry early (>= for >)
GrowTableEarly(e, new_prefix) ==
    IF e.next_code <= max_code
    THEN LET nc == e.next_code + 1
         IN  [e EXCEPT !.table = e.table @@ (new_prefix :> e.next_code),
                       !.next_code = nc,
                       !.code_size = IF nc >= Pow2(e.code_size)
                                     THEN Min(12, e.code_size + 1)
                                     ELSE e.code_size]
    ELSE e

\* Lines 43-47: insert new_prefix at next_code unless the table is full, then
\* widen the codes when next_code has passed 2^code_size.
GrowTable(e, new_prefix) ==
    IF e.next_code <= max_code
    THEN LET nc == e.next_code + 1
         IN  [e EXCEPT !.table = e.table @@ (new_prefix :> e.next_code),
                       !.next_code = nc,
                       !.code_size = IF nc > Pow2(e.code_size)
                                     THEN Min(12, e.code_size + 1)
                                     ELSE e.code_size]
    ELSE e

\* One iteration of `for byte in data` (lines 38-48), for a byte bytes([byte])
\* accepts.
LzwStep(e, byte) ==
    LET new_prefix == Append(e.prefix, byte)
    IN  IF new_prefix \in DOMAIN e.table
        THEN [e EXCEPT !.prefix = new_prefix]
        ELSE [GrowTable(WriteCode(e, e.table[e.prefix]), new_prefix)
                 EXCEPT !.prefix = <<byte>>]

\* Lines 53-56: pad the last partial byte with zero bits and flush it
PadBits(e) ==
    IF e.chunk_bits # << >>
    THEN FlushBits([e EXCEPT !.chunk_bits =
                        e.chunk_bits \o [i \in 1..(8 - Len(e.chunk_bits)) |-> 0]])
    ELSE e

\* Line 35: write_code(clear_code)
WriteClear ==
    /\ pc = "start"
    /\ enc' = WriteCode(enc, enc.clear_code)
    /\ pc' = "loop"
    /\ UNCHANGED <<min_bits, data, pos>>
    /\ UNCHANGED gifVars

\* Lines 37-48: the next element of data.  bytes([byte]) raises ValueError for
\* a value outside range(0, 256) and the call ends there.
EncodeByte ==
    /\ pc = "loop"
    /\ pos < Len(data)
    /\ pos' = pos + 1
    /\ IF IsByte(data[pos + 1])
       THEN /\ enc' = LzwStep(enc, data[pos + 1])
            /\ pc' = "loop"
       ELSE /\ enc' = enc
            /\ pc' = "raised"
    /\ UNCHANGED <<min_bits, data>>
    /\ UNCHANGED gifVars

\* Lines 50-51: the pending prefix, if any
FlushPrefix ==
    /\ pc = "loop"
    /\ pos = Len(data)
    /\ enc' = IF enc.prefix # << >> THEN WriteCode(enc, enc.table[enc.prefix]) ELSE enc
    /\ pc' = "end"
    /\ UNCHANGED <<min_bits, data, pos>>
    /\ UNCHANGED gifVars

\* Line 52: write_code(end_code)
WriteEnd ==
    /\ pc = "end"
    /\ enc' = WriteCode(enc, enc.end_code)
    /\ pc' = "pad"
    /\ UNCHANGED <<min_bits, data, pos>>
    /\ UNCHANGED gifVars

\* Lines 53-57: pad, flush, return bytes(result)
PadAndReturn ==
    /\ pc = "pad"
    /\ enc' = PadBits(enc)
    /\ pc' = "returned"
    /\ UNCHANGED <<min_bits, data, pos>>
    /\ UNCHANGED gifVars

LzwNext ==
    \/ WriteClear
    \/ EncodeByte
    \/ FlushPrefix
    \/ WriteEnd
    \/ PadAndReturn

(***************************************************************************)
(* Direct calls of lzw_encode.  write_gif is not running: its variables    *)
(* keep their idle values.                                                 *)
(***************************************************************************)
GifIdle ==
    /\ frames = << >>
    /\ palette = << >>
    /\ duration_ms = 0
    /\ transparent_index = 0
    /\ gpc = "none"
    /\ idx = 0
    /\ sink = "absent"
    /\ f = << >>
    /\ gce_at = 0
    /\ desc_at = 0
    /\ data_at = 0

\* Bounds of the inputs of the direct calls
MaxShortLen == 3
MaxPattern == 3
MaxLen == 4800
MidLen == 300

\* Element values tried with every min_bits: in range for some widths and
\* out of range for others, and the two values bytes() refuses
ShortValues == {-1, 0, 1, 2, 3, 4, 5, 256}

RECURSIVE SeqsUpTo(_, _)
SeqsUpTo(S, n) ==
    IF n = 0 THEN {<< >>}
    ELSE LET shorter == SeqsUpTo(S, n - 1)
         IN  shorter \cup {Append(s, v) : s \in {t \in shorter : Len(t) = n - 1}, v \in S}

\* lzw_encode(data, min_bits) with min_bits in 1..8 and short data
InitLzw ==
    /\ min_bits \in 1..8
    /\ data \in SeqsUpTo(ShortValues, MaxShortLen)
    /\ pos = 0
    /\ enc = LzwInit(min_bits)
    /\ pc = "start"
    /\ GifIdle

SpecLzw == InitLzw /\ [][LzwNext]_vars

\* Long inputs in closed form: pattern 0 is a run of one value, patterns 1
\* and 2 fill the table in about MaxLen bytes (few repeated pairs), the others
\* are two-valued and build long dictionary strings.
Gen(p, i) ==
    CASE p = 0 -> 7
      [] p = 1 -> ((i * (i + 1)) \div 2 + (i \div 512) * 7) % 256
      [] p = 2 -> (i * (i \div 256 + 1)) % 256
      [] OTHER -> ((i * i) \div p) % 2

Pattern(p, n) == [i \in 1..n |-> Gen(p, i)]

\* Pixel values of the short inputs of the min_bits = 8 calls
PixelValues == {0, 1, 255}

\* lzw_encode(data, min_bits=8) with every element in 0..255
InitLzw8 ==
    /\ min_bits = 8
    /\ data \in SeqsUpTo(PixelValues, MaxShortLen)
                  \cup {Pattern(p, n) : p \in 0..MaxPattern, n \in {MidLen, MaxLen}}
    /\ pos = 0
    /\ enc = LzwInit(min_bits)
    /\ pc = "start"
    /\ GifIdle

SpecLzw8 == InitLzw8 /\ [][LzwNext]_vars

(***************************************************************************)
(* write_gif                                                               *)
(***************************************************************************)
\* make_gifs.py: FPS = 12, DURATION_MS = 1000 // FPS
FPS == 12
DURATION_MS == 1000 \div FPS

\* make_gifs.py: PALETTE, five colours padded with WHITE to 256 entries
PALETTE ==
    [i \in 1..256 |->
        CASE i = 1 -> <<0, 0, 0>>
          [] i = 2 -> <<37, 99, 235>>
          [] i = 3 -> <<59, 130, 246>>
          [] i = 4 -> <<147, 197, 253>>
          [] OTHER -> <<255, 255, 255>>]

\* struct.pack("<H", v): two bytes, low byte first; raises struct.error
\* unless 0 <= v <= 65535
FitsU16(v) == v \in 0..65535
Pack16(v) == <<v % 256, v \div 256>>

\* H, W = len(frames[0]), len(frames[0][0])
FrameH == Len(frames[1])
FrameW == Len(frames[1][1])

\* pal_bytes[i*3 : i*3+3] = c[0], c[1], c[2] raises ValueError for a channel
\* outside range(0, 256)
PaletteOk == \A i \in 1..Min(Len(palette), 256) : \A ch \in 1..3 : IsByte(palette[i][ch])

\* pal_bytes: bytearray(768) with the first 256 palette entries written in
PalBytes ==
    [k \in 1..768 |->
        LET i == (k - 1) \div 3
        IN  IF i < Min(Len(palette), 256) THEN palette[i + 1][((k - 1) % 3) + 1] ELSE 0]

\* b"GIF89a"
Signature == <<71, 73, 70, 56, 57, 97>>

\* b"\x21\xFF\x0BNETSCAPE2.0\x03\x01\x00\x00\x00"
NetscapeExt == <<33, 255, 11, 78, 69, 84, 83, 67, 65, 80, 69, 50, 46, 48, 3, 1, 0, 0, 0>>

\* b"\x21\xF9\x04\x02": extension introducer, control label, block size and
\* the packed byte as the source writes it
GceHead == <<33, 249, 4, 2>>

\* b"\x2C" followed by struct.pack("<HHHHH", 0, 0, W, H, 0)
ImageDescriptor(w, h) ==
    <<44>> \o Pack16(0) \o Pack16(0) \o Pack16(w) \o Pack16(h) \o Pack16(0)

\* flat = []; for row in frame: flat.extend(row)
RECURSIVE Flatten(_)
Flatten(frame) == IF frame = << >> THEN << >> ELSE Head(frame) \o Flatten(Tail(frame))

\* SubBlocks writing the payload as one block whatever its length
SubBlocksUnchunked(compressed, at) ==
    IF at < Len(compressed)
    THEN <<(Len(compressed) - at) % 256>> \o SubSeq(compressed, at + 1, Len(compressed))
    ELSE << >>

\* Lines 102-107: length byte and payload of each sub-block from position
\* at (from 0) on
RECURSIVE SubBlocks(_, _)
SubBlocks(compressed, at) ==
    IF at < Len(compressed)
    THEN LET block_len == Min(255, Len(compressed) - at)
         IN  <<block_len>> \o SubSeq(compressed, at + 1, at + block_len)
                \o SubBlocks(compressed, at + block_len)
    ELSE << >>

\* Lines 66-74: return on an empty frame list; otherwise build pal_bytes and
\* open the file for writing (which creates it empty)
Begin ==
    /\ gpc = "call"
    /\ IF frames = << >>
       THEN /\ gpc' = "returned"
            /\ UNCHANGED <<sink, f>>
       ELSE IF ~PaletteOk
       THEN /\ gpc' = "raised"
            /\ UNCHANGED <<sink, f>>
       ELSE /\ gpc' = "header"
            /\ sink' = "open"
            /\ f' = << >>
    /\ UNCHANGED <<frames, palette, duration_ms, transparent_index, idx,
                   gce_at, desc_at, data_at>>
    /\ UNCHANGED lzwVars

\* Lines 76-85: signature, screen descriptor, global color table, loop
\* extension.  An exception leaves the with block, which closes the file with
\* what was written.
WriteHeader ==
    /\ gpc = "header"
    /\ IF FitsU16(FrameW) /\ FitsU16(FrameH)
       THEN /\ f' = f \o Signature \o Pack16(FrameW) \o Pack16(FrameH)
                      \o <<247, 0, 0>> \o PalBytes \o NetscapeExt
            /\ gpc' = "frame"
            /\ idx' = 1
            /\ sink' = sink
       ELSE /\ f' = f \o Signature
            /\ gpc' = "raised"
            /\ idx' = idx
            /\ sink' = "closed"
    /\ UNCHANGED <<frames, palette, duration_ms, transparent_index,
                   gce_at, desc_at, data_at>>
    /\ UNCHANGED lzwVars

\* Lines 88-100: the frame's control block, image descriptor and minimum code
\* size, then the call lzw_encode(flat, min_bits=8)
BeginFrame ==
    /\ gpc = "frame"
    /\ idx <= Len(frames)
    /\ gce_at' = Len(f)
    /\ IF ~FitsU16(duration_ms)
       THEN /\ f' = f \o GceHead
            /\ gpc' = "raised"
            /\ sink' = "closed"
            /\ UNCHANGED <<desc_at, data_at>>
            /\ UNCHANGED lzwVars
       ELSE IF ~IsByte(transparent_index)
       THEN /\ f' = f \o GceHead \o Pack16(duration_ms)
            /\ gpc' = "raised"
            /\ sink' = "closed"
            /\ UNCHANGED <<desc_at, data_at>>
            /\ UNCHANGED lzwVars
       ELSE /\ f' = f \o GceHead \o Pack16(duration_ms) \o <<transparent_index, 0>>
                      \o ImageDescriptor(FrameW, FrameH) \o <<8>>
            /\ desc_at' = Len(f) + 8
            /\ data_at' = Len(f')
            /\ gpc' = "encoding"
            /\ sink' = sink
            /\ min_bits' = 8
            /\ data' = Flatten(frames[idx])
            /\ pos' = 0
            /\ enc' = LzwInit(8)
            /\ pc' = "start"
    /\ UNCHANGED <<frames, palette, duration_ms, transparent_index, idx>>

\* lzw_encode raised inside the with block: the file is closed with what was
\* written and the exception reaches the caller
EncodeFailed ==
    /\ gpc = "encoding"
    /\ pc = "raised"
    /\ gpc' = "raised"
    /\ sink' = "closed"
    /\ pc' = "idle"
    /\ UNCHANGED <<min_bits, data, pos, enc>>
    /\ UNCHANGED <<frames, palette, duration_ms, transparent_index, idx, f,
                   gce_at, desc_at, data_at>>

\* Lines 100-108: compressed = the value lzw_encode returned (enc.result,
\* which stays in place as write_gif's local compressed until the next call),
\* written as sub-blocks and a zero byte; then the next frame
WriteSubBlocks ==
    /\ gpc = "encoding"
    /\ pc = "returned"
    /\ f' = f \o SubBlocks(enc.result, 0) \o <<0>>
    /\ idx' = idx + 1
    /\ gpc' = "frame"
    /\ pc' = "idle"
    /\ UNCHANGED <<min_bits, data, pos, enc>>
    /\ UNCHANGED <<frames, palette, duration_ms, transparent_index, sink,
                   gce_at, desc_at, data_at>>

\* Line 109 and the end of the with block: the trailer, and the file is closed
WriteTrailer ==
    /\ gpc = "frame"
    /\ idx > Len(frames)
    /\ f' = f \o <<59>>
    /\ sink' = "closed"
    /\ gpc' = "returned"
    /\ UNCHANGED <<frames, palette, duration_ms, transparent_index, idx,
                   gce_at, desc_at, data_at>>
    /\ UNCHANGED lzwVars

GifNext ==
    \/ Begin
    \/ WriteHeader
    \/ BeginFrame
    \/ LzwNext
    \/ EncodeFailed
    \/ WriteSubBlocks
    \/ WriteTrailer

\* Bounds of the animations
MaxFrames == 2
MaxH == 1
MaxW == 2

\* A two-entry palette
Pal2 == <<<<0, 0, 0>>, <<255, 255, 255>>>>

\* A palette with a channel bytearray refuses
PalBad == <<<<0, 0, 256>>>>

\* (palette, duration_ms, transparent_index) of the calls: the driver's own
\* arguments, a short palette, and values the field encodings refuse
ArgChoices ==
    {<<PALETTE, DURATION_MS, 0>>,
     <<Pal2, 8, 1>>,
     <<PALETTE, 65536, 0>>,
     <<PALETTE, DURATION_MS, 256>>,
     <<PalBad, DURATION_MS, 0>>}

\* Pixel values: inside both palettes, inside PALETTE only, and two values
\* no palette holds
GifPixels == {0, 2, 256, -1}

\* Frames of h rows and w columns: one colour, or alternating 0 and 1
Solid(h, w, v) == [r \in 1..h |-> [c \in 1..w |-> v]]
Checker(h, w) == [r \in 1..h |-> [c \in 1..w |-> (r + c) % 2]]
FramesOf(h, w) == {Solid(h, w, v) : v \in GifPixels} \cup {Checker(h, w)}

\* One-row frames whose compressed payload is 255, 256, 510 and 511 bytes
BigWidths == {224, 225, 431, 432}
BigFrame(w) == <<Pattern(1, w)>>

AnimationsOf(h, w) ==
    UNION {[1..n -> FramesOf(h, w)] : n \in 0..MaxFrames}

InitGif ==
    /\ \/ /\ frames \in UNION {AnimationsOf(h, w) : h \in 1..MaxH, w \in 1..MaxW}
          /\ \E a \in ArgChoices :
                /\ palette = a[1]
                /\ duration_ms = a[2]
                /\ transparent_index = a[3]
       \/ /\ frames \in {<<BigFrame(w)>> : w \in BigWidths}
                           \cup {<<BigFrame(w), BigFrame(w)>> : w \in BigWidths}
          /\ palette = PALETTE
          /\ duration_ms = DURATION_MS
          /\ transparent_index = 0
    /\ gpc = "call"
    /\ idx = 0
    /\ sink = "absent"
    /\ f = << >>
    /\ gce_at = 0
    /\ desc_at = 0
    /\ data_at = 0
    /\ min_bits = 8
    /\ data = << >>
    /\ pos = 0
    /\ enc = LzwInit(8)
    /\ pc = "idle"

SpecGif == InitGif /\ [][GifNext]_vars

(***************************************************************************)
(* The reference GIF LZW decoder of the round-trip claim (GIF89a, appendix *)
(* F): codes are read least significant bit first, mb + 1 bits wide at     *)
(* first; the stream starts with a clear code; the table holds at most     *)
(* 4096 codes; decoding stops at the end code.  It is no part of the       *)
(* repository: it is the reader the encoder's output is written for.       *)
(***************************************************************************)
\* bit j (from 0) of a byte stream, least significant bit of each byte first
StreamBit(bytes, j) == BitAt(bytes[j \div 8 + 1], j % 8)

RECURSIVE ReadBits(_, _, _)
ReadBits(bytes, at, w) ==
    IF w = 0 THEN 0 ELSE StreamBit(bytes, at) + 2 * ReadBits(bytes, at + 1, w - 1)

\* strs[c + 1] is the string of code c; the two control codes hold << >>
DecTable(mb) == [c \in 1..(Pow2(mb) + 2) |-> IF c <= Pow2(mb) THEN <<c - 1>> ELSE << >>]

DecInit(mb) ==
    [at |-> 0, width |-> mb + 1, strs |-> DecTable(mb), prev |-> -1,
     out |-> << >>, first |-> TRUE, status |-> "run"]

DecStep(bytes, mb, d) ==
    IF d.status # "run" THEN d
    ELSE IF d.at + d.width > 8 * Len(bytes) THEN [d EXCEPT !.status = "truncated"]
    ELSE
      LET c == ReadBits(bytes, d.at, d.width)
          at2 == d.at + d.width
          avail == Len(d.strs)
      IN  IF c = Pow2(mb)
          THEN [DecInit(mb) EXCEPT !.at = at2, !.out = d.out, !.first = FALSE]
          ELSE IF d.first THEN [d EXCEPT !.status = "no clear code"]
          ELSE IF c = Pow2(mb) + 1 THEN [d EXCEPT !.at = at2, !.status = "done"]
          ELSE IF d.prev = -1
          THEN IF c < Pow2(mb)
               THEN [d EXCEPT !.at = at2, !.out = d.out \o d.strs[c + 1], !.prev = c]
               ELSE [d EXCEPT !.status = "bad code"]
          ELSE IF c > avail \/ (c = avail /\ avail >= 4096)
          THEN [d EXCEPT !.status = "bad code"]
          ELSE
            LET old == d.strs[d.prev + 1]
                s == IF c < avail THEN d.strs[c + 1] ELSE Append(old, old[1])
                grown == avail < 4096
                avail2 == IF grown THEN avail + 1 ELSE avail
            IN  [d EXCEPT !.at = at2,
                          !.out = d.out \o s,
                          !.strs = IF grown THEN Append(d.strs, Append(old, s[1]))
                                   ELSE d.strs,
                          !.width = IF grown /\ avail2 = Pow2(d.width) /\ d.width < 12
                                    THEN d.width + 1 ELSE d.width,
                          !.prev = c]

\* n decoder steps, split in halves so that the depth of the recursion is
\* logarithmic in n
RECURSIVE DecRun(_, _, _, _)
DecRun(bytes, mb, d, n) ==
    IF n = 0 THEN d
    ELSE IF n = 1 THEN DecStep(bytes, mb, d)
    ELSE LET h == n \div 2
             mid == DecRun(bytes, mb, d, h)
         IN  IF mid.status # "run" THEN mid ELSE DecRun(bytes, mb, mid, n - h)

\* The decoded pixels and how decoding ended.  No code is narrower than
\* mb + 1 bits, which bounds the number of codes of the stream.
RefDecode(bytes, mb) ==
    LET d == DecRun(bytes, mb, DecInit(mb), (8 * Len(bytes)) \div (mb + 1) + 1)
    IN  [status |-> d.status, out |-> d.out]

(***************************************************************************)
(* Properties of lzw_encode(data, min_bits=8), checked under SpecLzw8.     *)
(***************************************************************************)
(* C1: whenever lzw_encode(data, min_bits=8) has returned for a sequence of
   pixel values in 0..255 (the empty sequence and runs of one value
   included), the reference decoder reads the returned bytes up to the end
   code and yields exactly data. *)
C1_RoundTrip ==
    (pc = "returned" /\ gpc = "none" /\ min_bits = 8)
        => RefDecode(enc.result, 8) = [status |-> "done", out |-> data]

\* C1 witness: a returned call of MidLen pixels, long enough for the codes to
\* have grown from 9 to 10 bits, decoded back to its input
C1_Witness ==
    /\ pc = "returned" /\ gpc = "none" /\ min_bits = 8
    /\ Len(data) = MidLen
    /\ enc.code_size = 10
    /\ RefDecode(enc.result, 8).out = data

\* The long inputs of patterns 1 and 2 fill the table: their calls return with
\* next_code at the cap, 12-bit codes and 4094 table entries
LongPatternsFillTable ==
    (pc = "returned" /\ Len(data) = MaxLen /\ data[1] = 1)
        => /\ enc.next_code = 4096
           /\ enc.code_size = 12
           /\ Cardinality(DOMAIN enc.table) = 4094

\* The code width the claim assigns to each value of next_code
WidthFor(nc) ==
    IF nc <= 512 THEN 9 ELSE IF nc <= 1024 THEN 10 ELSE IF nc <= 2048 THEN 11 ELSE 12

C9_State ==
    (gpc = "none" /\ min_bits = 8) =>
        /\ enc.next_code \in 258..4096
        /\ enc.code_size = WidthFor(enc.next_code)
        /\ enc.code_size \in 9..12
        /\ enc.last_code # << >> =>
              /\ enc.last_code[1] \in 0..(Pow2(enc.last_code[2]) - 1)
              /\ enc.last_code[2] \in 9..12

C9_Step ==
    /\ enc'.code_size \in {enc.code_size, enc.code_size + 1}
    /\ enc'.next_code \in {enc.next_code, enc.next_code + 1}

(* C9: in every state of a pass with min_bits=8 the code width is the one
   next_code determines (9 bits up to 512, 10 up to 1024, 11 up to 2048, 12
   from 2049 to the cap 4096), every code written is smaller than 2^width
   for the width it was written with, and no step lowers the width or
   raises it by more than one bit. *)
C9_WidthByNextCode == [](C9_State) /\ [][C9_Step]_vars

\* C9 witness: the step to 10 bits has just happened: next_code is 513 and the
\* code written in that iteration went out with 9 bits
C9_Witness ==
    /\ gpc = "none" /\ min_bits = 8 /\ pc = "loop"
    /\ enc.next_code = 513
    /\ enc.code_size = 10
    /\ enc.last_code # << >>
    /\ enc.last_code[2] = 9

(***************************************************************************)
(* Properties of lzw_encode for every min_bits in 1..8, checked under      *)
(* SpecLzw.                                                                *)
(***************************************************************************)
OutOfRange(v) == v \notin 0..(Pow2(min_bits) - 1)

(* C8: once the loop has consumed an element outside [0, 2^min_bits) the
   call has ended with an error: it does not go on encoding and returns
   nothing. *)
C8_RejectsOutOfRange ==
    (gpc = "none" /\ \E i \in 1..pos : OutOfRange(data[i])) => pc = "raised"

(* C10: in every state of a pass no dictionary entry maps to clearCode or
   endCode; every inserted (multi-byte) string has a code from endCode+1 to
   4095; no two strings share a code; the code space in use (dictionary codes
   plus the two control codes) never exceeds 4096. *)
C10_TableCodes ==
    gpc = "none" =>
        /\ \A s \in DOMAIN enc.table : enc.table[s] \notin {enc.clear_code, enc.end_code}
        /\ \A s \in DOMAIN enc.table :
              Len(s) >= 2 => enc.table[s] \in (enc.end_code + 1)..max_code
        /\ Cardinality({enc.table[s] : s \in DOMAIN enc.table})
              = Cardinality(DOMAIN enc.table)
        /\ Cardinality(DOMAIN enc.table) + 2 <= 4096

(***************************************************************************)
(* Properties of write_gif, checked under SpecGif.                         *)
(***************************************************************************)
\* The current frame's control block (8 bytes from gce_at) is in the file
GceWritten == gce_at > 0 /\ Len(f) >= gce_at + 8

(* C2: the image descriptor of every frame is the 10 bytes 0x2C, left 0,
   top 0, W, H (16-bit little-endian) and one packed byte 0; the next byte is
   the minimum code size 8 and the one after it the length byte of the first
   sub-block. *)
C2_ImageDescriptor ==
    (desc_at > 0 /\ Len(f) >= desc_at + 11) =>
        /\ SubSeq(f, desc_at + 1, desc_at + 10)
              = <<44, 0, 0, 0, 0>> \o Pack16(FrameW) \o Pack16(FrameH) \o <<0>>
        /\ f[desc_at + 11] = 8
        /\ (gpc = "frame" /\ idx > 1) => f[desc_at + 12] = Min(255, Len(enc.result))

(* C3: the control block of every frame is 0x21 0xF9 0x04, a packed byte with
   disposal method (bits 2-4) 2 and the transparent-color flag (bit 0) set,
   the delay, the transparent index byte equal to transparent_index, and a
   zero terminator. *)
C3_ControlBlock ==
    GceWritten =>
        /\ SubSeq(f, gce_at + 1, gce_at + 3) = <<33, 249, 4>>
        /\ (f[gce_at + 4] \div 4) % 8 = 2
        /\ f[gce_at + 4] % 2 = 1
        /\ f[gce_at + 7] = transparent_index
        /\ f[gce_at + 8] = 0

(* C4: the 16-bit little-endian delay field of every frame's control block is
   the configured duration in centiseconds (rounded down or to nearest:
   83 ms gives 8). *)
C4_DelayCentiseconds ==
    GceWritten =>
        f[gce_at + 5] + 256 * f[gce_at + 6]
            \in {duration_ms \div 10, (duration_ms + 5) \div 10}

\* The sub-blocks read back from position at (from 0): the concatenated
\* payloads, the number of blocks, the position after the zero-length
\* terminator, and whether the chain is well formed (every length byte in
\* 1..255 with that many bytes after it, up to a zero length byte)
RECURSIVE ParseBlocks(_, _)
ParseBlocks(bytes, at) ==
    IF at + 1 > Len(bytes)
    THEN [payload |-> << >>, blocks |-> 0, next |-> at, ok |-> FALSE]
    ELSE LET n == bytes[at + 1]
         IN  IF n = 0
             THEN [payload |-> << >>, blocks |-> 0, next |-> at + 1, ok |-> TRUE]
             ELSE IF n \notin 1..255 \/ at + 1 + n > Len(bytes)
             THEN [payload |-> << >>, blocks |-> 0, next |-> at, ok |-> FALSE]
             ELSE LET rest == ParseBlocks(bytes, at + 1 + n)
                  IN  [payload |-> SubSeq(bytes, at + 2, at + 1 + n) \o rest.payload,
                       blocks  |-> rest.blocks + 1,
                       next    |-> rest.next,
                       ok      |-> rest.ok]

\* WriteSubBlocks has just written frame idx - 1
FrameJustWritten == gpc = "frame" /\ idx > 1

(* C5: when a frame's image data has been written, what follows the
   minimum-code-size byte is a chain of sub-blocks with length bytes in
   1..255, then one zero-length sub-block and nothing more; the payloads in
   order are the bytes lzw_encode returned for the frame's flattened pixels,
   in the fewest blocks of at most 255 bytes. *)
C5_SubBlocks ==
    FrameJustWritten =>
        LET p == ParseBlocks(f, data_at)
        IN  /\ p.ok
            /\ p.next = Len(f)
            /\ p.payload = enc.result
            /\ p.blocks = (Len(enc.result) + 254) \div 255
            /\ data = Flatten(frames[idx - 1])
            /\ pc = "idle"

\* C5 witness: a frame whose payload is 510 bytes, written as two full
\* sub-blocks and the terminator
C5_Witness ==
    /\ FrameJustWritten
    /\ Len(enc.result) = 510
    /\ f[data_at + 1] = 255
    /\ f[data_at + 257] = 255
    /\ Len(f) = data_at + 513
    /\ f[Len(f)] = 0

\* A pixel that is no index of the palette
InvalidPixel ==
    \E k \in 1..Len(frames) : \E r \in 1..Len(frames[k]) : \E c \in 1..Len(frames[k][r]) :
        frames[k][r][c] \notin 0..(Min(Len(palette), 256) - 1)

(* C6: with a pixel that is no valid palette index in any frame, write_gif
   fails before any byte is written: the output never holds a byte and the
   call never returns normally. *)
C6_FailsBeforeWriting ==
    InvalidPixel => (f = << >> /\ gpc # "returned")

(* C7: when write_gif has ended in failure the sink is released and the
   output holds no partial stream: it is empty or ends in the trailer
   byte. *)
C7_NoPartialOutput ==
    gpc = "raised" =>
        /\ sink # "open"
        /\ f = << >> \/ f[Len(f)] = 59

====
